---- MODULE Spec2Model ----
(***************************************************************************)
(* BananaDB Collector browser extension: the background script            *)
(* (src/unnamed/part_000, the Capture Coordinator) and the content script  *)
(* (src/extension/content.js, the Dialog Presenter) in one page context,   *)
(* with the Collection Endpoint as the environment.                        *)
(*                                                                         *)
(* User-visible texts are sequences of string tokens; the Chinese texts of *)
(* the source are written here in English.                                 *)
(***************************************************************************)
EXTENDS Integers, Sequences, FiniteSets

\* ------------------------------------------------------------------ bounds
MaxClicks == 2      \* context-menu clicks handled

\* ------------------------------------------------------------- input sets
Keys == {"Escape", "Enter"}
ClickTargets == {"overlay", "dialogBox"}

\* An optional value is a sequence of length at most one (<<>> is undefined).
Opt(S) == {<<>>} \cup {<<x>> : x \in S}

\* Response bodies of the Collection Endpoint: not JSON at all, the JSON
\* value null, or a JSON object with optional detail and data members.
TextBody == [kind |-> "text", detail |-> <<>>, data |-> <<>>]
NullBody == [kind |-> "null", detail |-> <<>>, data |-> <<>>]
ObjectBody(detail, data) == [kind |-> "object", detail |-> detail, data |-> data]

\* The answers of the Collection Endpoint, as status and body.
Responses ==
    {[status |-> 200, body |-> ObjectBody(<<>>, <<[image_id |-> <<42>>]>>)],
     [status |-> 201, body |-> ObjectBody(<<>>, <<[image_id |-> <<7>>]>>)],
     [status |-> 200, body |-> ObjectBody(<<>>, <<>>)],
     [status |-> 200, body |-> TextBody],
     [status |-> 404, body |-> ObjectBody(<<"bad url">>, <<>>)],
     [status |-> 404, body |-> ObjectBody(<<"">>, <<>>)],
     [status |-> 404, body |-> TextBody],
     [status |-> 404, body |-> NullBody]}

\* The message of the TypeError a failed fetch rejects with (Chrome's).
RejectMessages == {"Failed to fetch"}

\* What the user may type into the textarea, as sequences of characters:
\* nothing, white space only, and words with white space before, between and
\* after them.
Texts == {<<>>, <<" ", "\t">>, <<"\n", "a", " ", "b", " ">>}

\* ------------------------------------------------------------------ state
VARIABLES
    menuItems,      \* the registered context-menu items
    clickLog,       \* one record per handled context-menu click
    listeners,      \* showPromptDialog listeners registered in the page
    tabMsgs,        \* showPromptDialog messages in flight to the tab
    sessions,       \* one record per dialog session created in the page
    dialogs,        \* sessions whose overlay (id bananadb-dialog) is attached
    textarea,       \* value of the textarea of the attached dialog
    checkbox,       \* checked state of the skip-AI box of the attached dialog
    keydown,        \* sessions whose escHandler is registered on document
    pageErrors,     \* exceptions thrown by handlers of the page
    runtimeMsgs,    \* saveImage messages in flight to the background
    fetches,        \* HTTP calls in flight
    httpCalls,      \* number of HTTP calls started
    notifications   \* notifications created, each with the click or save behind it

pageVars == <<listeners, sessions, dialogs, textarea, checkbox, keydown, pageErrors>>
bgVars == <<menuItems, clickLog, fetches, httpCalls, notifications>>
vars == <<menuItems, clickLog, listeners, tabMsgs, sessions,
          dialogs, textarea, checkbox, keydown, pageErrors, runtimeMsgs,
          fetches, httpCalls, notifications>>

Init ==
    /\ menuItems = {}
    /\ clickLog = <<>>
    /\ listeners = 0
    /\ tabMsgs = <<>>
    /\ sessions = <<>>
    /\ dialogs = {}
    /\ textarea = <<>>
    /\ checkbox = FALSE
    /\ keydown = <<>>
    /\ pageErrors = 0
    /\ runtimeMsgs = <<>>
    /\ fetches = {}
    /\ httpCalls = 0
    /\ notifications = {}

\* ------------------------------------------------------------ background
\* A JavaScript string as a sequence of tokens; the empty string is <<>>.
Str(x) == IF x = "" THEN <<>> ELSE <<x>>

\* Decimal representation of a natural number.
Digit(d) ==
    CASE d = 0 -> "0" [] d = 1 -> "1" [] d = 2 -> "2" [] d = 3 -> "3" [] d = 4 -> "4"
      [] d = 5 -> "5" [] d = 6 -> "6" [] d = 7 -> "7" [] d = 8 -> "8" [] d = 9 -> "9"

RECURSIVE ToString(_)
ToString(n) == IF n < 10 THEN Digit(n) ELSE ToString(n \div 10) \o Digit(n % 10)

\* The images of the page: the user right-clicks a different image at each
\* click, or something that has no source URL.
ImageUrls(c) == {"img" \o ToString(c) \o ".png"}

\* tab.url of the click event: the page has moved to another URL of its own
\* (history.pushState, no reload) by the time of each click.
TabUrls(c) == {"http://page/" \o ToString(c)}

\* showNotification(title, message). Each notification is kept with its
\* cause (the click or the save it was raised for) and its ordinal among the
\* notifications of that cause.
CountOf(log, kind, id) ==
    Cardinality({n \in log : n.cause = kind /\ n.id = id})

\* A showNotification that passes one fixed notification id to
\* chrome.notifications.create, so that each notification replaces the one
\* raised before it.
showNotification_FixedId(log, title, message, kind, id) ==
    {[title |-> title, message |-> message, cause |-> kind, id |-> id, k |-> 1]}

showNotification(log, title, message, kind, id) ==
    log \cup {[title |-> title, message |-> message, cause |-> kind, id |-> id,
               k |-> CountOf(log, kind, id) + 1]}

\* The properties the onInstalled listener passes to contextMenus.create.
CreateProperties == [id |-> "saveToBananaDB", contexts |-> {"image"}]

\* chrome.contextMenus.create: creating an id that is already registered
\* fails and registers nothing new.
ContextMenusCreate(items, properties) ==
    IF \E m \in items : m.id = properties.id THEN items
    ELSE items \cup {properties}

\* An install listener that offers the item in every context.
OnInstalled_AllContexts ==
    /\ menuItems' = ContextMenusCreate(menuItems,
                         [id |-> "saveToBananaDB", contexts |-> {"all"}])
    /\ UNCHANGED <<clickLog, tabMsgs, runtimeMsgs, fetches, httpCalls, notifications>>
    /\ UNCHANGED pageVars

\* runtime.onInstalled listener: one contextMenus.create per install event.
OnInstalled ==
    /\ menuItems' = ContextMenusCreate(menuItems, CreateProperties)
    /\ UNCHANGED <<clickLog, tabMsgs, runtimeMsgs, fetches, httpCalls, notifications>>
    /\ UNCHANGED pageVars

\* contextMenus.onClicked listener, up to the await of executeScript.
\* info.srcUrl and tab.url are optional; pageUrl is tab.url || '' and is
\* read before the await.
PageUrlOf(url) == IF url = <<>> THEN "" ELSE url[1]

\* A handler that returns on a missing source URL without telling the user.
OnClickedEntry_Silent(menuItemId, srcUrl) ==
    IF menuItemId # "saveToBananaDB" THEN [pc |-> "ignored", notify |-> FALSE]
    ELSE IF srcUrl = <<>> THEN [pc |-> "returned", notify |-> FALSE]
    ELSE [pc |-> "injecting", notify |-> FALSE]

OnClickedEntry(menuItemId, srcUrl) ==
    IF menuItemId # "saveToBananaDB" THEN [pc |-> "ignored", notify |-> FALSE]
    ELSE IF srcUrl = <<>> THEN [pc |-> "returned", notify |-> TRUE]
    ELSE [pc |-> "injecting", notify |-> FALSE]

ContextMenusOnClicked(menuItemId, srcUrl, tabUrl) ==
    LET r == OnClickedEntry(menuItemId, srcUrl)
        c == Len(clickLog) + 1
    IN  /\ Len(clickLog) < MaxClicks
        /\ menuItemId \in {m.id : m \in menuItems}
        /\ clickLog' = Append(clickLog,
               [srcUrl |-> srcUrl, pageUrl |-> PageUrlOf(tabUrl), pc |-> r.pc,
                showSent |-> 0])
        /\ notifications' =
               IF r.notify
               THEN showNotification(notifications, "Error",
                                     <<"cannot obtain image URL">>, "click", c)
               ELSE notifications
        /\ UNCHANGED <<menuItems, tabMsgs, runtimeMsgs, fetches,
                       httpCalls>>
        /\ UNCHANGED pageVars

\* The rest of the onClicked listener, run when executeScript settles: a
\* failed injection is logged only, and tabs.sendMessage is called either way.
\* A successful injection has run content.js once more in the page, which
\* registered one more runtime.onMessage listener there.
\* A handler whose tabs.sendMessage sits inside the inner try block, so that
\* a failed injection skips it and reaches the outer catch block instead.
AfterInjection_GiveUp(ok, imageUrl, pageUrl) ==
    IF ok
    THEN [sent |-> <<[action |-> "showPromptDialog", imageUrl |-> imageUrl,
                      pageUrl |-> pageUrl]>>,
          notify |-> FALSE]
    ELSE [sent |-> <<>>, notify |-> TRUE]

AfterInjection(ok, imageUrl, pageUrl) ==
    [sent |-> <<[action |-> "showPromptDialog", imageUrl |-> imageUrl,
                 pageUrl |-> pageUrl]>>,
     notify |-> FALSE]

\* A content script that registers its listener on its first run in the page
\* only, so that later injections add none.
ExecuteScriptSettles_RegistersOnce(c, ok) ==
    /\ c \in 1..Len(clickLog)
    /\ clickLog[c].pc = "injecting"
    /\ LET r == AfterInjection(ok, clickLog[c].srcUrl[1], clickLog[c].pageUrl)
       IN  /\ tabMsgs' = tabMsgs \o r.sent
           /\ clickLog' = [clickLog EXCEPT ![c].pc = "done",
                                            ![c].showSent = Len(r.sent)]
           /\ notifications' = notifications
    /\ listeners' = IF ok /\ listeners = 0 THEN 1 ELSE listeners
    /\ UNCHANGED <<menuItems, runtimeMsgs, fetches, httpCalls>>
    /\ UNCHANGED <<sessions, dialogs, textarea, checkbox, keydown, pageErrors>>

ExecuteScriptSettles(c, ok) ==
    /\ c \in 1..Len(clickLog)
    /\ clickLog[c].pc = "injecting"
    /\ LET r == AfterInjection(ok, clickLog[c].srcUrl[1], clickLog[c].pageUrl)
       IN  /\ tabMsgs' = tabMsgs \o r.sent
           /\ clickLog' = [clickLog EXCEPT ![c].pc = "done",
                                            ![c].showSent = Len(r.sent)]
           /\ notifications' =
                  IF r.notify
                  THEN showNotification(notifications, "Error",
                                        <<"processing failed">>, "click", c)
                  ELSE notifications
    /\ listeners' = IF ok THEN listeners + 1 ELSE listeners
    /\ UNCHANGED <<menuItems, runtimeMsgs, fetches, httpCalls>>
    /\ UNCHANGED <<sessions, dialogs, textarea, checkbox, keydown, pageErrors>>

\* A handler that asks for the AI analysis to be skipped whatever the
\* message says.
RequestBody_AlwaysSkips(request) ==
    [image_url |-> request.imageUrl, page_url |-> request.pageUrl,
     context_text |-> request.promptText,
     skip_ai |-> TRUE]

\* The body handleSaveImage posts for a saveImage message; skip_ai is
\* skipAI || false, and a message without skipAI has it undefined.
RequestBody(request) ==
    [image_url |-> request.imageUrl, page_url |-> request.pageUrl,
     context_text |-> request.promptText,
     skip_ai |-> IF "skipAI" \in DOMAIN request /\ request.skipAI
                 THEN request.skipAI ELSE FALSE]

\* A background in which the second, logging listener handles saveImage as
\* the first does, so that one message starts two calls.
OnMessageSaveImage_BothHandle ==
    /\ runtimeMsgs # <<>>
    /\ LET request == Head(runtimeMsgs)
       IN  IF request.action = "saveImage"
           THEN /\ fetches' = fetches \cup
                       {[req |-> httpCalls + 1, sess |-> request.sess,
                         body |-> RequestBody(request)],
                        [req |-> httpCalls + 2, sess |-> request.sess,
                         body |-> RequestBody(request)]}
                /\ httpCalls' = httpCalls + 2
           ELSE UNCHANGED <<fetches, httpCalls>>
    /\ runtimeMsgs' = Tail(runtimeMsgs)
    /\ UNCHANGED <<menuItems, clickLog, notifications, tabMsgs>>
    /\ UNCHANGED pageVars

\* The two runtime.onMessage listeners of the background, for the oldest
\* saveImage message in flight: the first calls handleSaveImage, which runs
\* up to its await of fetch; the second only logs.
OnMessageSaveImage ==
    /\ runtimeMsgs # <<>>
    /\ LET request == Head(runtimeMsgs)
       IN  IF request.action = "saveImage"
           THEN /\ fetches' = fetches \cup
                       {[req |-> httpCalls + 1, sess |-> request.sess,
                         body |-> RequestBody(request)]}
                /\ httpCalls' = httpCalls + 1
           ELSE UNCHANGED <<fetches, httpCalls>>
    /\ runtimeMsgs' = Tail(runtimeMsgs)
    /\ UNCHANGED <<menuItems, clickLog, notifications, tabMsgs>>
    /\ UNCHANGED pageVars

\* response.ok
ResponseOk(status) == status >= 200 /\ status <= 299

\* handleSaveImage after a response with !response.ok: the message of the
\* error that reaches the catch block. response.json() of a body that is
\* not JSON rejects and is replaced by {}; the JSON value null has no
\* properties to read.
NotOkError(status, body) ==
    IF body.kind = "null"
    THEN <<"Cannot read properties of null (reading 'detail')">>
    ELSE LET detail == IF body.kind = "text" THEN <<>> ELSE body.detail
         IN  IF detail # <<>> /\ detail[1] # ""
             THEN Str(detail[1])
             ELSE <<"HTTP ", ToString(status)>>

\* A handler that reads result.data.id, which the endpoint does not send.
OkResult_WrongField(body) ==
    IF body.kind = "text"
    THEN [threw |-> TRUE, message |-> <<"Unexpected token in JSON">>]
    ELSE IF body.kind = "null"
    THEN [threw |-> TRUE,
          message |-> <<"Cannot read properties of null (reading 'data')">>]
    ELSE IF body.data = <<>>
    THEN [threw |-> TRUE,
          message |-> <<"Cannot read properties of undefined (reading 'id')">>]
    ELSE [threw |-> FALSE,
          message |-> <<"Image added to BananaDB (ID: ", "undefined", ")">>]

\* A handler that tolerates a body it cannot use (response.json() failures
\* replaced by {}, result.data?.image_id) and reports success all the same.
OkResult_Lenient(body) ==
    IF body.kind # "object" \/ body.data = <<>>
    THEN [threw |-> FALSE,
          message |-> <<"Image added to BananaDB (ID: ", "undefined", ")">>]
    ELSE [threw |-> FALSE,
          message |-> <<"Image added to BananaDB (ID: ",
                        IF body.data[1].image_id = <<>> THEN "undefined"
                        ELSE ToString(body.data[1].image_id[1]),
                        ")">>]

\* handleSaveImage after a response with response.ok: either the message of
\* the success notification or the message of the error thrown on the way.
OkResult(body) ==
    IF body.kind = "text"
    THEN [threw |-> TRUE, message |-> <<"Unexpected token in JSON">>]
    ELSE IF body.kind = "null"
    THEN [threw |-> TRUE,
          message |-> <<"Cannot read properties of null (reading 'data')">>]
    ELSE IF body.data = <<>>
    THEN [threw |-> TRUE,
          message |-> <<"Cannot read properties of undefined (reading 'image_id')">>]
    ELSE [threw |-> FALSE,
          message |-> <<"Image added to BananaDB (ID: ",
                        IF body.data[1].image_id = <<>> THEN "undefined"
                        ELSE ToString(body.data[1].image_id[1]),
                        ")">>]

\* error.message || 'confirm the BananaDB server is running (...)'
FailureMessage(errorMessage) ==
    IF errorMessage # <<>> THEN errorMessage
    ELSE <<"confirm the BananaDB server is running (http://localhost:8000)">>

\* A handler whose success path falls through into the failure path, so
\* that a save that succeeded is reported as saved and as failed.
HandleSettled_Both(log, req, settled) ==
    IF settled.rejected
    THEN showNotification(log, "Save failed", FailureMessage(Str(settled.message)),
                          "save", req)
    ELSE IF ~ResponseOk(settled.status)
    THEN showNotification(log, "Save failed",
                          FailureMessage(NotOkError(settled.status, settled.body)),
                          "save", req)
    ELSE LET r == OkResult(settled.body)
         IN  IF r.threw
             THEN showNotification(log, "Save failed", FailureMessage(r.message),
                                   "save", req)
             ELSE showNotification(
                      showNotification(log, "Saved", r.message, "save", req),
                      "Save failed", FailureMessage(<<>>), "save", req)

\* handleSaveImage from the settled fetch to its end. settled is either a
\* response (status, body) or a rejection with the error's message.
HandleSettled(log, req, settled) ==
    IF settled.rejected
    THEN showNotification(log, "Save failed", FailureMessage(Str(settled.message)),
                          "save", req)
    ELSE IF ~ResponseOk(settled.status)
    THEN showNotification(log, "Save failed",
                          FailureMessage(NotOkError(settled.status, settled.body)),
                          "save", req)
    ELSE LET r == OkResult(settled.body)
         IN  IF r.threw
             THEN showNotification(log, "Save failed", FailureMessage(r.message),
                                   "save", req)
             ELSE showNotification(log, "Saved", r.message, "save", req)

FetchSettles(f, settled) ==
    /\ f \in fetches
    /\ fetches' = fetches \ {f}
    /\ UNCHANGED <<menuItems, clickLog, httpCalls, tabMsgs, runtimeMsgs>>
    /\ UNCHANGED pageVars
    /\ notifications' = HandleSettled(notifications, f.req, settled)

\* The Collection Endpoint answers the call.
FetchResolves(f, status, body) ==
    FetchSettles(f, [rejected |-> FALSE, status |-> status, body |-> body,
                     message |-> ""])

\* The call fails at the network level: fetch rejects with an error whose
\* message the browser chooses.
FetchRejects(f, message) ==
    FetchSettles(f, [rejected |-> TRUE, status |-> 0,
                     body |-> TextBody,
                     message |-> message])

\* ------------------------------------------------------------------- page
\* The page state the content script's handlers read and write; out collects
\* the messages a handler passes to chrome.runtime.sendMessage.
PageState ==
    [sessions |-> sessions, dialogs |-> dialogs, textarea |-> textarea,
     checkbox |-> checkbox, keydown |-> keydown, pageErrors |-> pageErrors,
     out |-> <<>>]

\* A lookup that never finds the dialog (a mistyped element id).
GetDialogById_Never(P) == FALSE

\* A guard that asks whether a dialog was ever created in the page (a flag
\* that is set on creation and never cleared), not whether one is attached.
GetDialogById_EverCreated(P) == P.sessions # <<>>

\* document.getElementById('bananadb-dialog')
GetDialogById(P) == P.dialogs # {}

\* A removal that looks the overlay up by its id when it runs
\* (document.getElementById('bananadb-dialog').remove()), and so detaches
\* whichever dialog is attached at that time.
OverlayRemove_ById(P, s) ==
    IF P.dialogs # {}
    THEN [P EXCEPT !.dialogs = {}, !.textarea = <<>>, !.checkbox = FALSE]
    ELSE P

\* overlay.remove() of session s: detaches that session's overlay, and does
\* nothing when it is already detached.
OverlayRemove(P, s) ==
    IF s \in P.dialogs
    THEN [P EXCEPT !.dialogs = @ \ {s}, !.textarea = <<>>, !.checkbox = FALSE]
    ELSE P

\* A showPromptInputDialog that keeps the URLs in variables shared by all
\* calls and assigns them before the guard, so that a request arriving while
\* a dialog is open replaces the URLs that dialog's Save will send.
showPromptInputDialog_SharedUrls(P, imageUrl, pageUrl) ==
    IF GetDialogById(P)
    THEN [P EXCEPT
             !.sessions = [s \in DOMAIN P.sessions |->
                              IF s \in P.dialogs
                              THEN [P.sessions[s] EXCEPT !.imageUrl = imageUrl,
                                                         !.pageUrl = pageUrl]
                              ELSE P.sessions[s]]]
    ELSE LET s == Len(P.sessions) + 1
         IN  [P EXCEPT
                 !.sessions = Append(@, [imageUrl |-> imageUrl, pageUrl |-> pageUrl,
                                         exit |-> "open", sent |-> 0]),
                 !.dialogs = @ \cup {s},
                 !.textarea = <<>>,
                 !.checkbox = FALSE,
                 !.keydown = Append(@, s)]

\* showPromptInputDialog(imageUrl, pageUrl)
showPromptInputDialog(P, imageUrl, pageUrl) ==
    IF GetDialogById(P) THEN P
    ELSE LET s == Len(P.sessions) + 1
         IN  [P EXCEPT
                 !.sessions = Append(@, [imageUrl |-> imageUrl, pageUrl |-> pageUrl,
                                         exit |-> "open", sent |-> 0]),
                 !.dialogs = @ \cup {s},
                 !.textarea = <<>>,
                 !.checkbox = FALSE,
                 !.keydown = Append(@, s)]

\* One showPromptDialog message is handed to each of the k registered
\* listeners in turn; each calls showPromptInputDialog.
RECURSIVE DispatchShowPromptDialog(_, _, _)
DispatchShowPromptDialog(P, k, request) ==
    IF k = 0 THEN P
    ELSE DispatchShowPromptDialog(
             showPromptInputDialog(P, request.imageUrl, request.pageUrl),
             k - 1, request)

\* String.prototype.trim on a sequence of characters; it strips white space
\* and line terminators.
IsSpace(c) == c \in {" ", "\t", "\n"}

RECURSIVE TrimStart(_)
TrimStart(t) ==
    IF t # <<>> /\ IsSpace(Head(t)) THEN TrimStart(Tail(t)) ELSE t

RECURSIVE TrimEnd(_)
TrimEnd(t) ==
    IF t # <<>> /\ IsSpace(t[Len(t)]) THEN TrimEnd(SubSeq(t, 1, Len(t) - 1)) ELSE t

\* A trim that strips the leading white space only.
Trim_StartOnly(t) == TrimStart(t)

Trim(t) == TrimEnd(TrimStart(t))

\* The message a Save click sends for session s.
SaveMessage(P, s) ==
    [action |-> "saveImage",
     imageUrl |-> P.sessions[s].imageUrl,
     pageUrl |-> P.sessions[s].pageUrl,
     promptText |-> Trim(P.textarea),
     skipAI |-> P.checkbox,
     sess |-> s]

\* A save handler that is attached twice and so sends the message twice.
SaveClick_Twice(P, s) ==
    OverlayRemove([P EXCEPT !.out = @ \o <<SaveMessage(P, s), SaveMessage(P, s)>>], s)

\* click handler of bananadb-save-btn
SaveClick(P, s) ==
    OverlayRemove([P EXCEPT !.out = Append(@, SaveMessage(P, s))], s)

\* A cancel handler that sends the save message as the save handler does.
CancelClick_Sends(P, s) ==
    OverlayRemove([P EXCEPT !.out = Append(@, SaveMessage(P, s))], s)

\* click handler of bananadb-cancel-btn
CancelClick(P, s) == OverlayRemove(P, s)

\* An overlay click handler without the test of e.target, which closes the
\* dialog on every click that reaches it.
OverlayClick_AnyTarget(P, s, target) == OverlayRemove(P, s)

\* click handler of the overlay; target is the element that was clicked
OverlayClick(P, s, target) ==
    IF target = "overlay" THEN OverlayRemove(P, s) ELSE P

\* escHandler of session s
RemoveListener(q, s) == SelectSeq(q, LAMBDA x : x # s)

\* An escHandler that removes the overlay but stays registered.
escHandler_NoDeregister(P, s, key) ==
    IF key = "Escape" THEN OverlayRemove(P, s) ELSE P

escHandler(P, s, key) ==
    IF key = "Escape"
    THEN [OverlayRemove(P, s) EXCEPT !.keydown = RemoveListener(@, s)]
    ELSE P

\* A keydown event on document runs the handlers that were registered when
\* the event was dispatched, in registration order.
RECURSIVE DispatchKeydown(_, _, _)
DispatchKeydown(P, handlers, key) ==
    IF handlers = <<>> THEN P
    ELSE DispatchKeydown(escHandler(P, Head(handlers), key), Tail(handlers), key)

\* Bookkeeping after a page handler ran: sessions whose overlay the handler
\* detached are marked with the exit path, and the messages it sent are
\* counted per session.
RECURSIVE CountFor(_, _)
CountFor(out, s) ==
    IF out = <<>> THEN 0
    ELSE (IF Head(out).sess = s THEN 1 ELSE 0) + CountFor(Tail(out), s)

Settle(P, how) ==
    [s \in 1..Len(P.sessions) |->
        [P.sessions[s] EXCEPT
            !.exit = IF s \in dialogs /\ s \notin P.dialogs THEN how ELSE @,
            !.sent = @ + CountFor(P.out, s)]]

PageStep(P, how) ==
    /\ UNCHANGED <<listeners, tabMsgs>>
    /\ UNCHANGED bgVars
    /\ dialogs' = P.dialogs
    /\ keydown' = P.keydown
    /\ textarea' = P.textarea
    /\ checkbox' = P.checkbox
    /\ pageErrors' = P.pageErrors
    /\ runtimeMsgs' = runtimeMsgs \o P.out
    /\ sessions' = Settle(P, how)

\* runtime.onMessage listener of the content script, for the oldest message
\* in flight to the tab; with no listener in the page the message is dropped.
DeliverShowPromptDialog ==
    /\ tabMsgs # <<>>
    /\ tabMsgs' = Tail(tabMsgs)
    /\ UNCHANGED <<listeners, runtimeMsgs>>
    /\ UNCHANGED bgVars
    /\ LET P == DispatchShowPromptDialog(PageState, listeners, Head(tabMsgs))
       IN  /\ sessions' = P.sessions
           /\ dialogs' = P.dialogs
           /\ textarea' = P.textarea
           /\ checkbox' = P.checkbox
           /\ keydown' = P.keydown
           /\ pageErrors' = P.pageErrors

\* The user edits the textarea of the open dialog.
TypePrompt(s, v) ==
    /\ s \in dialogs
    /\ v # textarea
    /\ textarea' = v
    /\ UNCHANGED <<listeners, sessions, dialogs, checkbox, keydown, pageErrors>>
    /\ UNCHANGED <<tabMsgs, runtimeMsgs>>
    /\ UNCHANGED bgVars

\* The user toggles the skip-AI checkbox of the open dialog.
ToggleSkipAI(s) ==
    /\ s \in dialogs
    /\ checkbox' = ~checkbox
    /\ UNCHANGED <<listeners, sessions, dialogs, textarea, keydown, pageErrors>>
    /\ UNCHANGED <<tabMsgs, runtimeMsgs>>
    /\ UNCHANGED bgVars

ClickCancel(s) ==
    /\ s \in dialogs
    /\ PageStep(CancelClick(PageState, s), "cancel")

ClickSave(s) ==
    /\ s \in dialogs
    /\ PageStep(SaveClick(PageState, s), "save")

\* A click that reaches the overlay's listener: on the overlay itself or,
\* bubbling, on the dialog box inside it.
ClickOverlay(s, target) ==
    /\ s \in dialogs
    /\ PageStep(OverlayClick(PageState, s, target), "overlay")

\* A key press anywhere in the page, with or without a dialog open.
Keydown(key) ==
    /\ PageStep(DispatchKeydown(PageState, keydown, key), "esc")

Next ==
    \/ OnInstalled
    \/ \E m \in menuItems, u \in Opt(ImageUrls(Len(clickLog) + 1)),
          t \in TabUrls(Len(clickLog) + 1) :
           ContextMenusOnClicked(m.id, u, <<t>>)
    \/ \E c \in 1..Len(clickLog), ok \in BOOLEAN : ExecuteScriptSettles(c, ok)
    \/ OnMessageSaveImage
    \/ \E f \in fetches, r \in Responses : FetchResolves(f, r.status, r.body)
    \/ \E f \in fetches, m \in RejectMessages : FetchRejects(f, m)
    \/ DeliverShowPromptDialog
    \/ \E s \in dialogs, v \in Texts : TypePrompt(s, v)
    \/ \E s \in dialogs : ToggleSkipAI(s)
    \/ \E s \in dialogs : ClickCancel(s)
    \/ \E s \in dialogs : ClickSave(s)
    \/ \E s \in dialogs, target \in ClickTargets : ClickOverlay(s, target)
    \/ \E key \in Keys : Keydown(key)

Spec == Init /\ [][Next]_vars

\* ----------------------------------------------------------------- claims
Range(q) == {q[i] : i \in DOMAIN q}

Ended(s) == sessions[s].exit # "open"

SaveClicks == Cardinality({s \in DOMAIN sessions : sessions[s].exit = "save"})

\* C1: at most one element with id bananadb-dialog exists in the page, and
\* while a dialog is open a further call of showPromptInputDialog, with any
\* arguments, creates nothing and leaves the page as it is.
C1_SingleDialog ==
    /\ Cardinality(dialogs) <= 1
    /\ dialogs # {} =>
           \A c \in 1..MaxClicks : \A u \in ImageUrls(c) : \A t \in TabUrls(c) :
               showPromptInputDialog(PageState, u, t) = PageState

\* C1 witness: the first request opened a dialog and the second request was
\* delivered to a listening page while that dialog was still open.
C1_Witness ==
    /\ Len(clickLog) = 2
    /\ \A c \in 1..2 : clickLog[c].pc = "done"
    /\ tabMsgs = <<>>
    /\ Len(sessions) = 1
    /\ sessions[1].imageUrl = clickLog[1].srcUrl[1]
    /\ dialogs = {1}

\* C2: every session that ended by a Save click sent exactly one saveImage
\* message, and a session that is open or ended by Cancel, ESC or a click on
\* the overlay sent none.
C2_OneMessagePerSave ==
    /\ \A s \in DOMAIN sessions :
           sessions[s].sent = IF sessions[s].exit = "save" THEN 1 ELSE 0
    /\ \A i \in DOMAIN runtimeMsgs : runtimeMsgs[i].action = "saveImage"

\* C2 witness: one session was cancelled and another one saved.
C2_Witness ==
    /\ \E s \in DOMAIN sessions : sessions[s].exit = "save" /\ sessions[s].sent = 1
    /\ \E s \in DOMAIN sessions : sessions[s].exit = "cancel"

\* C3: once a session has ended, by any exit path, its overlay is detached
\* and its keydown listener is no longer registered on document.
C3_ListenersReleased ==
    \A s \in DOMAIN sessions :
        Ended(s) => s \notin dialogs /\ s \notin Range(keydown)

\* C4: an Escape key press removes every open dialog and deregisters its
\* keydown listener in the same step; pressed while no dialog is open it
\* detaches nothing, ends no session, sends no message and raises no error.
C4_EscDeregisters ==
    [][Keydown("Escape") =>
          /\ \A s \in dialogs : s \notin dialogs' /\ s \notin Range(keydown')
          /\ dialogs = {} =>
                 /\ dialogs' = {}
                 /\ sessions' = sessions
                 /\ runtimeMsgs' = runtimeMsgs
                 /\ pageErrors' = pageErrors]_vars

\* C4 witness: the first session was dismissed with Escape; the second was
\* cancelled, which left its keydown listener registered; Escape was then
\* pressed with no dialog open, which ran that listener: it deregistered
\* itself, and nothing else changed.
C4_Witness ==
    /\ Len(sessions) = 2
    /\ sessions[1].exit = "esc"
    /\ sessions[2].exit = "cancel"
    /\ keydown = <<>>
    /\ dialogs = {}
    /\ runtimeMsgs = <<>>
    /\ pageErrors = 0

\* The notifications a step added.
Added == notifications' \ notifications

GenericMessage == <<"confirm the BananaDB server is running (http://localhost:8000)">>

\* C5: when the HTTP call fails at the network level, handleSaveImage raises
\* one failure notification for that save, and its message is the generic
\* unreachable-server message.
C5_NetworkFailureGeneric ==
    [][\A f \in fetches : \A m \in RejectMessages :
          FetchRejects(f, m) =>
              Added = {[title |-> "Save failed", message |-> GenericMessage,
                        cause |-> "save", id |-> f.req, k |-> 1]}]_vars

\* The message the failure notification is said to carry after a non-2xx
\* answer: the detail of a body that parses and has a non-empty detail,
\* otherwise HTTP <status>.
ClaimedNotOkMessage(status, body) ==
    IF body.kind # "text" /\ body.detail # <<>> /\ body.detail[1] # ""
    THEN <<body.detail[1]>>
    ELSE <<"HTTP ", ToString(status)>>

\* C6: a non-2xx answer raises exactly one notification for that save, the
\* failure notification, with the body's detail as its message when the body
\* parses and has a non-empty detail, and HTTP <status> otherwise.
C6_NotOkMessage ==
    [][\A f \in fetches : \A r \in Responses :
          (~ResponseOk(r.status) /\ FetchResolves(f, r.status, r.body)) =>
              Added = {[title |-> "Save failed",
                        message |-> ClaimedNotOkMessage(r.status, r.body),
                        cause |-> "save", id |-> f.req, k |-> 1]}]_vars

\* The 2xx answers whose body has a data record with an image_id.
OkResponsesWithId ==
    {r \in Responses :
        /\ ResponseOk(r.status)
        /\ r.body.kind = "object"
        /\ r.body.data # <<>>
        /\ r.body.data[1].image_id # <<>>}

\* C7: a 2xx answer whose body has data.image_id = N raises exactly one
\* notification for that save, the success notification, and its message
\* contains N.
C7_SuccessCarriesId ==
    [][\A f \in fetches :
          fetches' = fetches \ {f} =>
              \A r \in OkResponsesWithId :
                  FetchResolves(f, r.status, r.body) =>
                      \E n \in Added :
                          /\ Added = {n}
                          /\ n.title = "Saved"
                          /\ n.cause = "save" /\ n.id = f.req /\ n.k = 1
                          /\ ToString(r.body.data[1].image_id[1]) \in Range(n.message)]_vars

\* C7 witness: two saves were answered with different identifiers and each
\* has its success notification.
C7_Witness ==
    /\ \E n \in notifications : n.title = "Saved" /\ "42" \in Range(n.message)
    /\ \E n \in notifications : n.title = "Saved" /\ "7" \in Range(n.message)

UrlClicksDone ==
    Cardinality({c \in DOMAIN clickLog : clickLog[c].pc = "done"})

\* C8: a click without a source URL has returned with exactly one
\* notification, the failure 'cannot obtain image URL', without asking for an
\* injection and without sending showPromptDialog; injections, dialog
\* sessions and HTTP calls are all accounted for by clicks that had a URL.
C8_MissingUrl ==
    /\ \A c \in DOMAIN clickLog :
           clickLog[c].srcUrl = <<>> =>
               /\ clickLog[c].pc = "returned"
               /\ clickLog[c].showSent = 0
               /\ {n \in notifications : n.cause = "click" /\ n.id = c} =
                      {[title |-> "Error", message |-> <<"cannot obtain image URL">>,
                        cause |-> "click", id |-> c, k |-> 1]}
    /\ listeners <= UrlClicksDone
    /\ Len(tabMsgs) <= UrlClicksDone
    /\ Len(sessions) <= UrlClicksDone
    /\ httpCalls <= Len(sessions)

\* C8 witness: a click without a source URL was handled, and nothing but its
\* notification came of it.
C8_Witness ==
    /\ \E c \in DOMAIN clickLog : clickLog[c].srcUrl = <<>>
    /\ Cardinality(notifications) = 1
    /\ listeners = 0 /\ tabMsgs = <<>> /\ sessions = <<>> /\ httpCalls = 0

\* C9: when the injection of a click fails, the showPromptDialog message of
\* that click is sent all the same and nothing else happens; and a
\* showPromptDialog message delivered to a page without a listener is
\* dropped. Neither step raises a notification or starts an HTTP call.
C9_InjectionFailureTolerated ==
    [][/\ \A c \in DOMAIN clickLog :
              ExecuteScriptSettles(c, FALSE) =>
                  /\ tabMsgs' = Append(tabMsgs,
                         [action |-> "showPromptDialog",
                          imageUrl |-> clickLog[c].srcUrl[1],
                          pageUrl |-> clickLog[c].pageUrl])
                  /\ UNCHANGED <<notifications, fetches, httpCalls, runtimeMsgs>>
       /\ (listeners = 0 /\ DeliverShowPromptDialog) =>
              /\ UNCHANGED <<notifications, fetches, httpCalls, runtimeMsgs>>
              /\ UNCHANGED <<sessions, dialogs, keydown, pageErrors>>]_vars

\* C9 witness: a click's injection failed (no listener was ever registered),
\* its message was sent and dropped, and nothing came of it.
C9_Witness ==
    /\ \E c \in DOMAIN clickLog : clickLog[c].pc = "done" /\ clickLog[c].showSent = 1
    /\ \A c \in DOMAIN clickLog : clickLog[c].pc = "done"
    /\ listeners = 0
    /\ tabMsgs = <<>>
    /\ notifications = {} /\ httpCalls = 0 /\ fetches = {}

\* A step that delivers a showPromptDialog message to the page, or in which
\* a dialog session ends otherwise than by a Save click.
ShowOrDismiss ==
    \/ Len(tabMsgs') < Len(tabMsgs)
    \/ \E s \in DOMAIN sessions :
           sessions[s].exit = "open" /\ sessions'[s].exit \in {"cancel", "overlay", "esc"}

\* A step that handles a context-menu click.
ClickStep == Len(clickLog') > Len(clickLog)

\* C10 as stated: no context-menu click, shown dialog or dialog closed by
\* Cancel, ESC or outside-click causes an HTTP call or a notification, and
\* the HTTP calls started never outnumber the Save clicks.
C10_Original ==
    [][/\ (ClickStep \/ ShowOrDismiss) => UNCHANGED <<notifications, fetches, httpCalls>>
       /\ httpCalls' <= SaveClicks']_vars

\* C10 as amended: an HTTP call is started only by the handling of a received
\* saveImage message. A context-menu click that has a source URL, a shown
\* dialog, and a dialog closed by Cancel, ESC or outside-click cause neither
\* an HTTP call nor a notification; a click without a source URL causes its
\* one notification and no HTTP call. The HTTP calls started never outnumber
\* the Save clicks.
C10_HttpOnlyOnSave ==
    [][/\ httpCalls' # httpCalls =>
              /\ runtimeMsgs # <<>>
              /\ Head(runtimeMsgs).action = "saveImage"
              /\ runtimeMsgs' = Tail(runtimeMsgs)
              /\ httpCalls' = httpCalls + 1
       /\ ClickStep =>
              /\ UNCHANGED <<fetches, httpCalls>>
              /\ clickLog'[Len(clickLog')].srcUrl # <<>> => UNCHANGED notifications
       /\ ShowOrDismiss => UNCHANGED <<notifications, fetches, httpCalls>>
       /\ httpCalls' <= SaveClicks']_vars

\* C10 witness: a dialog was cancelled and caused nothing, and the one HTTP
\* call that was started belongs to the one Save click.
C10_Witness ==
    /\ \E s \in DOMAIN sessions : sessions[s].exit = "cancel"
    /\ SaveClicks = 1
    /\ httpCalls = 1

\* A step in which the background receives the oldest message in flight.
ReceiveStep == Len(runtimeMsgs') < Len(runtimeMsgs)

\* C11: each saveImage message received starts exactly one HTTP POST, whose
\* body is built from that message, although two onMessage listeners are
\* registered; the calls started always equal the messages received; and the
\* settling of a call, failed or not, starts no further call.
C11_OnePostPerMessage ==
    [][/\ httpCalls' = SaveClicks' - Len(runtimeMsgs')
       /\ ReceiveStep =>
              /\ httpCalls' = httpCalls + 1
              /\ \E f \in fetches' :
                     /\ f \notin fetches
                     /\ fetches' = fetches \cup {f}
                     /\ f.req = httpCalls'
                     /\ f.body = RequestBody(Head(runtimeMsgs))
       /\ \A f \in fetches :
              f \notin fetches' =>
                  /\ httpCalls' = httpCalls
                  /\ fetches' = fetches \ {f}
                  /\ runtimeMsgs' = runtimeMsgs]_vars

\* C11 witness: the one call of the one saveImage message failed, and no
\* further call was started for it.
C11_Witness ==
    /\ SaveClicks = 1
    /\ runtimeMsgs = <<>>
    /\ httpCalls = 1
    /\ fetches = {}
    /\ \E n \in notifications :
           n.cause = "save" /\ n.id = 1 /\ n.title = "Save failed"

\* The notifications raised for the save whose call is the req-th one.
NotificationsOf(req) == {n \in notifications : n.cause = "save" /\ n.id = req}

\* C12: while the call of a save is in flight, which it stays for as long as
\* the endpoint does not answer, no notification has been raised for that
\* save; once the call has completed exactly one notification has been raised
\* for it, the success or the failure notification; and every save
\* notification belongs to a call that was started.
C12_OneNotificationAfterCompletion ==
    /\ \A req \in 1..httpCalls :
           IF \E f \in fetches : f.req = req
           THEN NotificationsOf(req) = {}
           ELSE \E n \in NotificationsOf(req) :
                    /\ NotificationsOf(req) = {n}
                    /\ n.k = 1
                    /\ n.title \in {"Saved", "Save failed"}
    /\ \A n \in notifications : n.cause = "save" => n.id \in 1..httpCalls
    /\ \A f \in fetches : f.req \in 1..httpCalls

\* C12 witness: of two saves, one has been answered and has its one
\* notification, and the other is still in flight and has none.
C12_Witness ==
    /\ httpCalls = 2
    /\ \E f \in fetches : fetches = {f}
    /\ \E n \in notifications :
           /\ n.cause = "save"
           /\ {m \in notifications : m.cause = "save"} = {n}
           /\ \A f \in fetches : f.req # n.id

\* White space as the claim means it: blanks, tabs and line breaks.
Blank(c) == c \in {" ", "\t", "\n"}

\* p is t without its leading and trailing white space: a stretch of t that
\* neither starts nor ends with white space and has only white space before
\* and after it.
StrippedOf(t, p) ==
    \E i \in 1..(Len(t) + 1) : \E j \in 0..Len(t) :
        /\ p = SubSeq(t, i, j)
        /\ \A k \in 1..(i - 1) : Blank(t[k])
        /\ \A k \in (j + 1)..Len(t) : Blank(t[k])
        /\ p # <<>> => ~Blank(p[1]) /\ ~Blank(p[Len(p)])

\* C13: a Save click sends one saveImage message whose promptText is the
\* textarea content without its leading and trailing white space and whose
\* skipAI is the state of the checkbox; with an empty or white-space-only
\* textarea and the box unchecked the message is still sent, with promptText
\* '' and skipAI false.
C13_PromptTextStripped ==
    [][\A s \in dialogs :
          ClickSave(s) =>
              \E m \in Range(runtimeMsgs') :
                  /\ runtimeMsgs' = Append(runtimeMsgs, m)
                  /\ m.action = "saveImage"
                  /\ StrippedOf(textarea, m.promptText)
                  /\ m.skipAI = checkbox
                  /\ ((\A i \in DOMAIN textarea : Blank(textarea[i])) /\ ~checkbox) =>
                         m.promptText = <<>> /\ m.skipAI = FALSE]_vars

\* C13 witness: two Save clicks, one with nothing but white space at most in
\* the textarea and the box unchecked, one with words surrounded by white
\* space; both messages are in flight.
C13_Witness ==
    /\ Len(runtimeMsgs) = 2
    /\ runtimeMsgs[1].promptText = <<>> /\ runtimeMsgs[1].skipAI = FALSE
    /\ runtimeMsgs[2].promptText = <<"a", " ", "b">>

\* The one context-menu item of the extension.
SaveItem == [id |-> "saveToBananaDB", contexts |-> {"image"}]

\* C14: the registered context-menu items change only in an install step,
\* which changes nothing else and issues one create, of the item with id
\* saveToBananaDB for the image context; the handling of a click, of a
\* saveImage message, of an HTTP response and the raising of a notification
\* leave the registration as it is.
C14_MenuChangedOnlyByInstall ==
    [][/\ menuItems' # menuItems =>
              /\ menuItems' = menuItems \cup {SaveItem}
              /\ UNCHANGED <<clickLog, tabMsgs, runtimeMsgs, fetches, httpCalls,
                             notifications>>
       /\ OnInstalled => menuItems' = {SaveItem}
       /\ (ClickStep \/ ReceiveStep \/ fetches' # fetches
              \/ notifications' # notifications) =>
              menuItems' = menuItems]_vars

\* C14 witness: after the install, clicks with and without a source URL, a
\* saveImage message and an HTTP response were handled and notifications
\* raised, and the one item is registered as it was.
C14_Witness ==
    /\ menuItems = {SaveItem}
    /\ Len(clickLog) = 2
    /\ \E c \in DOMAIN clickLog : clickLog[c].srcUrl = <<>>
    /\ httpCalls = 1
    /\ fetches = {}
    /\ Cardinality(notifications) = 2

\* The 2xx answers whose body cannot be parsed or has no data record.
OkResponsesUnusable ==
    {r \in Responses :
        /\ ResponseOk(r.status)
        /\ (r.body.kind = "text" \/ (r.body.kind = "object" /\ r.body.data = <<>>))}

\* C15: a 2xx answer whose body cannot be parsed, or parses to an object
\* without the data record, raises exactly one notification for that save,
\* and it is the failure notification.
C15_UnusableBodyFails ==
    [][\A f \in fetches :
          fetches' = fetches \ {f} =>
              \A r \in OkResponsesUnusable :
                  FetchResolves(f, r.status, r.body) =>
                      \E n \in Added :
                          /\ Added = {n}
                          /\ n.title = "Save failed"
                          /\ n.cause = "save" /\ n.id = f.req /\ n.k = 1
                          /\ \A m \in notifications' :
                                 (m.cause = "save" /\ m.id = f.req) =>
                                     m.title # "Saved"]_vars

\* C15 witness: one save was answered 200 with a body that is not JSON and
\* another 200 with an object that has no data record; each has its failure
\* notification and there is no success notification.
C15_Witness ==
    /\ fetches = {}
    /\ \E n \in notifications :
           n.title = "Save failed" /\ n.message = <<"Unexpected token in JSON">>
    /\ \E n \in notifications :
           /\ n.title = "Save failed"
           /\ n.message = <<"Cannot read properties of undefined (reading 'image_id')">>
    /\ \A n \in notifications : n.title # "Saved"

\* A step in which the page receives the oldest showPromptDialog message.
DeliverStep == Len(tabMsgs') < Len(tabMsgs)

\* C16: a dialog session holds the imageUrl and pageUrl of the
\* showPromptDialog request that created it and no step changes them, a
\* request delivered while the dialog is open included; a Save click sends
\* the imageUrl and pageUrl of its session.
C16_SaveSendsSessionUrls ==
    [][/\ \A s \in DOMAIN sessions :
              /\ sessions'[s].imageUrl = sessions[s].imageUrl
              /\ sessions'[s].pageUrl = sessions[s].pageUrl
       /\ (DeliverStep /\ Len(sessions') > Len(sessions)) =>
              /\ sessions'[Len(sessions')].imageUrl = Head(tabMsgs).imageUrl
              /\ sessions'[Len(sessions')].pageUrl = Head(tabMsgs).pageUrl
       /\ (DeliverStep /\ dialogs # {}) =>
              /\ Len(sessions') = Len(sessions)
              /\ dialogs' = dialogs
       /\ \A s \in dialogs :
              ClickSave(s) =>
                  /\ Len(runtimeMsgs') = Len(runtimeMsgs) + 1
                  /\ runtimeMsgs'[Len(runtimeMsgs')].imageUrl = sessions[s].imageUrl
                  /\ runtimeMsgs'[Len(runtimeMsgs')].pageUrl = sessions[s].pageUrl]_vars

\* C16 witness: the dialog of the first click was open when the request of
\* the second click, with another image and page URL, was delivered; Save was
\* clicked after that and sent the URLs of the first click.
C16_Witness ==
    /\ Len(clickLog) = 2
    /\ \A c \in 1..2 : clickLog[c].pc = "done" /\ clickLog[c].showSent = 1
    /\ clickLog[2].srcUrl # clickLog[1].srcUrl
    /\ clickLog[2].pageUrl # clickLog[1].pageUrl
    /\ tabMsgs = <<>>
    /\ Len(sessions) = 1
    /\ sessions[1].exit = "save"
    /\ Len(runtimeMsgs) = 1
    /\ runtimeMsgs[1].imageUrl = clickLog[1].srcUrl[1]
    /\ runtimeMsgs[1].pageUrl = clickLog[1].pageUrl

\* A saveImage message as a sender that leaves skipAI out would send it.
WithoutSkipAI(m) ==
    [action |-> m.action, imageUrl |-> m.imageUrl, pageUrl |-> m.pageUrl,
     promptText |-> m.promptText, sess |-> m.sess]

\* C17: the body of the call started for a saveImage message has the four
\* fields image_url, page_url, context_text and skip_ai, equal to the
\* message's imageUrl, pageUrl, promptText and skipAI; skip_ai is false when
\* skipAI is false, and also when the message has no skipAI.
C17_BodyFromMessage ==
    [][/\ ReceiveStep =>
              \E f \in fetches' \ fetches :
                  LET m == Head(runtimeMsgs)
                  IN  /\ DOMAIN f.body = {"image_url", "page_url", "context_text", "skip_ai"}
                      /\ f.body.image_url = m.imageUrl
                      /\ f.body.page_url = m.pageUrl
                      /\ f.body.context_text = m.promptText
                      /\ f.body.skip_ai = m.skipAI
                      /\ m.skipAI = FALSE => f.body.skip_ai = FALSE
       /\ \A i \in DOMAIN runtimeMsgs :
              LET b == RequestBody(WithoutSkipAI(runtimeMsgs[i]))
              IN  /\ b.skip_ai = FALSE
                  /\ b.image_url = runtimeMsgs[i].imageUrl
                  /\ b.page_url = runtimeMsgs[i].pageUrl
                  /\ b.context_text = runtimeMsgs[i].promptText]_vars

\* C17 witness: the calls of two saves are in flight, and their bodies differ
\* in every field, each as its own message had it.
C17_Witness ==
    \E f, g \in fetches :
        /\ f.req = 1 /\ g.req = 2
        /\ f.body.image_url # g.body.image_url
        /\ f.body.page_url # g.body.page_url
        /\ f.body.context_text = <<>> /\ g.body.context_text = <<"a", " ", "b">>
        /\ f.body.skip_ai = FALSE /\ g.body.skip_ai = TRUE

\* The exit paths of a dialog session.
ExitPaths == {"cancel", "save", "overlay", "esc"}

\* C18: when every session of the page has ended, by whichever exit path, the
\* next showPromptDialog delivered to the page creates a new, open dialog
\* session for the URLs of that request, and a Save click in a session that
\* followed an ended one sends that session's own URLs.
C18_GuardOnlyWhileOpen ==
    [][/\ (/\ DeliverStep
           /\ sessions # <<>>
           /\ \A s \in DOMAIN sessions : sessions[s].exit \in ExitPaths) =>
              /\ Len(sessions') = Len(sessions) + 1
              /\ dialogs' = {Len(sessions')}
              /\ sessions'[Len(sessions')] =
                     [imageUrl |-> Head(tabMsgs).imageUrl,
                      pageUrl |-> Head(tabMsgs).pageUrl,
                      exit |-> "open", sent |-> 0]
       /\ \A s \in dialogs :
              (s > 1 /\ ClickSave(s)) =>
                  /\ sessions[s - 1].exit \in ExitPaths
                  /\ runtimeMsgs'[Len(runtimeMsgs')].imageUrl = sessions[s].imageUrl
                  /\ runtimeMsgs'[Len(runtimeMsgs')].pageUrl = sessions[s].pageUrl
                  /\ sessions[s].imageUrl # sessions[s - 1].imageUrl]_vars

\* C18 witness: the first session ended by a click on the overlay, the
\* request of the second click then created a second session, and its Save
\* sent the URLs of the second click.
C18_Witness ==
    /\ Len(sessions) = 2
    /\ sessions[1].exit = "overlay"
    /\ sessions[2].exit = "save"
    /\ Len(runtimeMsgs) = 1
    /\ runtimeMsgs[1].imageUrl = clickLog[2].srcUrl[1]
    /\ runtimeMsgs[1].pageUrl = clickLog[2].pageUrl
    /\ sessions[1].imageUrl = clickLog[1].srcUrl[1]

\* What C19 says of a delivered request and of a Save click: a
\* showPromptDialog message delivered to a page with k >= 1 listeners, which
\* calls showPromptInputDialog k times, changes the page as one call does, so
\* that at most one session is created and exactly one dialog is attached
\* afterwards; and a Save click sends exactly one message however many
\* listeners are registered.
OneDialogOneMessage ==
    /\ (DeliverStep /\ listeners >= 1) =>
           LET once == showPromptInputDialog(PageState, Head(tabMsgs).imageUrl,
                                             Head(tabMsgs).pageUrl)
           IN  /\ sessions' = once.sessions
               /\ dialogs' = once.dialogs
               /\ keydown' = once.keydown
               /\ Len(sessions') <= Len(sessions) + 1
               /\ Cardinality(dialogs') = 1
    /\ \A s \in dialogs :
           ClickSave(s) => Len(runtimeMsgs') = Len(runtimeMsgs) + 1

\* C19 as stated: every context-menu click injects the content script again
\* and so registers one more listener, that is, once the clicks so far have
\* been handled to the end there are as many listeners as clicks; and one
\* message still creates one dialog and one Save click sends one message.
C19_Original ==
    [][/\ (\A c \in DOMAIN clickLog' : clickLog'[c].pc # "injecting") =>
              listeners' = Len(clickLog')
       /\ OneDialogOneMessage]_vars

\* C19 as amended: a click that has a source URL asks for an injection, and
\* each injection that succeeds registers one more showPromptDialog listener
\* in the page; a click without a source URL and a failed injection register
\* none. One message still creates one dialog and one Save click sends one
\* message.
C19_ListenersAccumulate ==
    [][/\ \A c \in DOMAIN clickLog :
              /\ ExecuteScriptSettles(c, TRUE) => listeners' = listeners + 1
              /\ ExecuteScriptSettles(c, FALSE) => listeners' = listeners
       /\ ClickStep =>
              /\ listeners' = listeners
              /\ clickLog'[Len(clickLog')].pc =
                     IF clickLog'[Len(clickLog')].srcUrl = <<>>
                     THEN "returned" ELSE "injecting"
       /\ listeners' # listeners =>
              \E c \in DOMAIN clickLog :
                  clickLog[c].pc = "injecting" /\ clickLog'[c].pc = "done"
       /\ OneDialogOneMessage]_vars

\* C19 witness: two injections succeeded, the second request was delivered
\* to the two listeners and created one session, and its Save click sent one
\* message.
C19_Witness ==
    /\ listeners = 2
    /\ tabMsgs = <<>>
    /\ Len(sessions) = 2
    /\ dialogs = {}
    /\ sessions[2].exit = "save"
    /\ sessions[2].sent = 1

\* The non-2xx answers whose body is an object with a non-empty detail.
NotOkResponsesWithDetail ==
    {r \in Responses :
        /\ ~ResponseOk(r.status)
        /\ r.body.kind = "object"
        /\ r.body.detail # <<>>
        /\ r.body.detail[1] # ""}

\* In a step that completes the call f: what the step raised is what
\* handleSaveImage raises for the answer r, or for the network error m.
AnsweredWith(f, r) ==
    notifications' \ notifications =
        HandleSettled({}, f.req,
                      [rejected |-> FALSE, status |-> r.status, body |-> r.body,
                       message |-> ""])

RejectedWith(f, m) ==
    notifications' \ notifications =
        HandleSettled({}, f.req,
                      [rejected |-> TRUE, status |-> 0, body |-> TextBody,
                       message |-> m])

\* C20: whichever of the calls in flight completes, and in whatever order,
\* the step raises one notification, for the save of that call, and keeps
\* every notification raised before; what it reports depends on the answer
\* to that call only: the image_id of a usable 2xx answer, the detail of a
\* non-2xx answer that has one, the message of the network error.
C20_OwnOutcome ==
    [][\A f \in fetches \ fetches' :
          LET added == notifications' \ notifications
          IN  /\ fetches' = fetches \ {f}
              /\ notifications \subseteq notifications'
              /\ \E n \in added :
                     /\ added = {n}
                     /\ n.cause = "save" /\ n.id = f.req /\ n.k = 1
                     /\ \A r \in OkResponsesWithId :
                            AnsweredWith(f, r) =>
                                /\ n.title = "Saved"
                                /\ ToString(r.body.data[1].image_id[1])
                                       \in Range(n.message)
                     /\ \A r \in NotOkResponsesWithDetail :
                            AnsweredWith(f, r) =>
                                /\ n.title = "Save failed"
                                /\ n.message = <<r.body.detail[1]>>
                     /\ \A m \in RejectMessages :
                            RejectedWith(f, m) =>
                                n.title = "Save failed" /\ n.message = <<m>>]_vars

\* C20 witness: two calls were in flight at once and the second was answered
\* first: it has its success notification with its own image_id while the
\* first is still in flight and has none.
C20_Witness ==
    /\ httpCalls = 2
    /\ \E f \in fetches : fetches = {f} /\ f.req = 1
    /\ NotificationsOf(1) = {}
    /\ \E n \in NotificationsOf(2) : n.title = "Saved" /\ "7" \in Range(n.message)

\* C21: after an Escape key press no keydown listener of any dialog session
\* of the page is registered, neither that of the open dialog nor one left
\* over from a session closed by Cancel, Save or a click on the overlay; a
\* dialog detached by the key press had its own listener registered; and the
\* listener of a session whose dialog is gone detaches no dialog.
C21_EscClearsAllListeners ==
    [][Keydown("Escape") =>
          /\ keydown' = <<>>
          /\ \A s \in dialogs \ dialogs' : s \in Range(keydown)
          /\ \A s \in DOMAIN sessions :
                 sessions[s].exit # "open" => sessions'[s] = sessions[s]
          /\ \A s \in Range(keydown) :
                 s \notin dialogs =>
                     LET after == escHandler(PageState, s, "Escape")
                     IN  /\ after.dialogs = dialogs
                         /\ after.sessions = sessions
                         /\ after.out = <<>>]_vars

\* C21 witness: the first session was cancelled, which left its listener
\* registered; the second dialog was open when Escape was pressed, which ran
\* both listeners: the second session ended by ESC and no listener is left.
C21_Witness ==
    /\ Len(sessions) = 2
    /\ sessions[1].exit = "cancel"
    /\ sessions[2].exit = "esc"
    /\ dialogs = {}
    /\ keydown = <<>>

\* C22: while a dialog is open, a click whose target lies inside the dialog
\* box, which reaches the overlay's handler by bubbling, leaves the page as
\* it is: the session stays open, what was typed stays, no message is sent.
\* A click whose target is the overlay detaches the dialog, ends the session
\* by the overlay path, and sends no message either.
C22_InsideClickKeepsDialog ==
    [][/\ \A s \in dialogs :
              /\ \A t \in ClickTargets \ {"overlay"} :
                     OverlayClick(PageState, s, t) = PageState
              /\ LET after == OverlayClick(PageState, s, "overlay")
                 IN  after.dialogs = dialogs \ {s} /\ after.out = <<>>
              /\ ClickOverlay(s, "overlay") =>
                     /\ s \notin dialogs'
                     /\ sessions'[s].exit = "overlay"
                     /\ sessions'[s].sent = 0
                     /\ runtimeMsgs' = runtimeMsgs
       /\ \A s \in DOMAIN sessions :
              (sessions[s].exit = "open" /\ sessions'[s].exit = "overlay") =>
                  ClickOverlay(s, "overlay")]_vars

\* C22 witness: the first dialog was dismissed by a click on the overlay and
\* sent nothing; the second dialog is open with a prompt typed and the box
\* checked, which a click inside the dialog box leaves as they are.
C22_Witness ==
    /\ Len(sessions) = 2
    /\ sessions[1].exit = "overlay" /\ sessions[1].sent = 0
    /\ dialogs = {2}
    /\ textarea = <<"\n", "a", " ", "b", " ">>
    /\ checkbox = TRUE
    /\ runtimeMsgs = <<>>
    /\ OverlayClick(PageState, 2, "dialogBox") = PageState
====
